---- MODULE Spec2Model ----
(***************************************************************************)
(* A model of the OvaCare account service (src/auth.py): the password      *)
(* hasher, the token codec, the in-memory credential store and the three   *)
(* handlers signup, login_for_access_token and get_current_user.           *)
(*                                                                         *)
(* Time is counted in ticks of half a second, so that the conversion of a  *)
(* datetime to the whole-second "exp" claim of a token is a real           *)
(* conversion.  Passwords are sequences of Unicode code points and are     *)
(* encoded to UTF-8 byte sequences as the code does.                       *)
(***************************************************************************)
EXTENDS Integers, Sequences, FiniteSets, TLC

VARIABLES
    db,        \* TEMP_USER_DATABASE: username -> record
    now,       \* the wall clock, in ticks
    advances,  \* how many times the clock has been moved
    pc,        \* per request thread: where it stands in its handler
    req,       \* per request thread: the request being handled
    loc,       \* per request thread: the handler's local variables
    res,       \* per request thread: the request it completed last and the outcome,
               \* until it takes the next request or the clock moves
    tok,       \* per client: the bearer token it holds from its last login
    hp,        \* the password hasher on its own: inputs, digest, verdict
    tc         \* the token codec on its own: inputs, token, decoded payload

vars == <<db, now, advances, pc, req, loc, res, tok, hp, tc>>

------------------------------------------------------------------------------
(* Bounds of the model *)

\* how many times the clock is moved in one behaviour
MaxAdvances == 4
\* longest tail appended to the padding of a test password
MaxTail == 2
\* latest tick at which the token codec on its own issues a token
MaxIssueTick == 3

------------------------------------------------------------------------------
(* Program constants *)

ACCESS_TOKEN_EXPIRE_MINUTES == 60
\* password.encode('utf-8')[:72]
MaxPasswordBytes == 72
\* ticks in a second: datetime carries fractions of a second, the token's
\* exp claim does not
TicksPerSec == 2
SECRET_KEY == "placeholder_secret_key"
ALGORITHM == "HS256"

Minutes(m) == m * 60 * TicksPerSec

------------------------------------------------------------------------------
(* UTF-8: str.encode('utf-8') and bytes.decode('utf-8', errors='ignore') *)

\* the bytes of one code point
Utf8Char(c) ==
    IF c < 128 THEN <<c>>
    ELSE IF c < 2048 THEN <<192 + (c \div 64), 128 + (c % 64)>>
    ELSE IF c < 65536 THEN
        <<224 + (c \div 4096), 128 + ((c \div 64) % 64), 128 + (c % 64)>>
    ELSE <<240 + (c \div 262144), 128 + ((c \div 4096) % 64),
           128 + ((c \div 64) % 64), 128 + (c % 64)>>

RECURSIVE Utf8Encode(_)
Utf8Encode(s) ==
    IF s = <<>> THEN <<>> ELSE Utf8Char(Head(s)) \o Utf8Encode(Tail(s))

\* length of the sequence a lead byte announces, 0 for a byte that cannot lead
Utf8SeqLen(b) ==
    IF b < 128 THEN 1
    ELSE IF b >= 194 /\ b < 224 THEN 2
    ELSE IF b >= 224 /\ b < 240 THEN 3
    ELSE IF b >= 240 /\ b < 245 THEN 4
    ELSE 0

IsContinuation(b) == b >= 128 /\ b < 192

Utf8CodePoint(bs) ==
    IF Len(bs) = 1 THEN bs[1]
    ELSE IF Len(bs) = 2 THEN (bs[1] - 192) * 64 + (bs[2] - 128)
    ELSE IF Len(bs) = 3 THEN
        (bs[1] - 224) * 4096 + (bs[2] - 128) * 64 + (bs[3] - 128)
    ELSE (bs[1] - 240) * 262144 + (bs[2] - 128) * 4096
         + (bs[3] - 128) * 64 + (bs[4] - 128)

\* errors='ignore': a byte that starts no complete, well-formed sequence is
\* dropped and decoding goes on with the next byte
RECURSIVE Utf8DecodeIgnore(_)
Utf8DecodeIgnore(bs) ==
    IF bs = <<>> THEN <<>>
    ELSE LET n == Utf8SeqLen(Head(bs))
             whole == /\ n > 0
                      /\ Len(bs) >= n
                      /\ \A i \in 2..n : IsContinuation(bs[i])
         IN IF whole
            THEN <<Utf8CodePoint(SubSeq(bs, 1, n))>>
                 \o Utf8DecodeIgnore(SubSeq(bs, n + 1, Len(bs)))
            ELSE Utf8DecodeIgnore(Tail(bs))

Prefix(s, n) == SubSeq(s, 1, IF Len(s) < n THEN Len(s) ELSE n)

------------------------------------------------------------------------------
(* Password hasher: pwd_context = CryptContext(schemes=["bcrypt"]) *)

\* the salts the hasher may draw
Salts == {"salt1", "salt2"}

\* bcrypt keys its cipher with the NUL-terminated secret, of which it reads
\* at most 72 bytes
BcryptKey(bytes) == Prefix(bytes \o <<0>>, MaxPasswordBytes)

\* pwd_context.hash with the salt it drew: the digest of an ideal hash is
\* determined by, and determines, the salt and the key
PwdContextHash(secret, salt) ==
    [scheme |-> "bcrypt", salt |-> salt, checksum |-> BcryptKey(Utf8Encode(secret))]

PwdContextVerify(secret, hash) ==
    /\ hash.scheme = "bcrypt"
    /\ PwdContextHash(secret, hash.salt) = hash

verify_password(plain_password, hashed_password) ==
    PwdContextVerify(plain_password, hashed_password)

\* the truncation get_password_hash applies before hashing
TruncatedPassword(password) ==
    LET password_bytes == Prefix(Utf8Encode(password), MaxPasswordBytes)
    IN Utf8DecodeIgnore(password_bytes)

get_password_hash(password, salt) ==
    PwdContextHash(TruncatedPassword(password), salt)

------------------------------------------------------------------------------
(* Optional values: Python's None, and a value that is present *)

None == <<>>
Some(v) == <<v>>

\* dict.get(key): None when the key is absent
Get(d, key) == IF key \in DOMAIN d THEN Some(d[key]) ELSE None

------------------------------------------------------------------------------
(* Token codec: jose.jwt with HS256 *)

\* timegm(dt.utctimetuple()): the whole seconds of a datetime
ToSeconds(t) == t \div TicksPerSec

\* jwt.encode: a datetime "exp" becomes whole seconds; the signature verifies
\* under the key that signed
jwt_encode(claims, key, algorithm) ==
    [kind |-> "jws", alg |-> algorithm, key |-> key,
     claims |-> IF "exp" \in DOMAIN claims
                THEN [claims EXCEPT !.exp = ToSeconds(@)]
                ELSE claims]

JWTError == [ok |-> FALSE, payload |-> None]

\* a decoder that compares the whole-second exp claim with a clock reading
\* it did not convert to seconds
jwt_decode_unconverted_clock(token, key, algorithm, t) ==
    IF token.kind # "jws" THEN JWTError
    ELSE IF token.alg # algorithm \/ token.key # key THEN JWTError
    ELSE IF "exp" \in DOMAIN token.claims /\ token.claims.exp < t
         THEN JWTError
    ELSE [ok |-> TRUE, payload |-> token.claims]

\* jwt.decode: structure, then signature, then the exp claim if the token
\* carries one: jose raises ExpiredSignatureError when exp < now
jwt_decode(token, key, algorithm, t) ==
    IF token.kind # "jws" THEN JWTError
    ELSE IF token.alg # algorithm \/ token.key # key THEN JWTError
    ELSE IF "exp" \in DOMAIN token.claims /\ token.claims.exp < ToSeconds(t)
         THEN JWTError
    ELSE [ok |-> TRUE, payload |-> token.claims]

\* an issuer that ignores expires_delta and always gives 15 minutes
create_access_token_fixed_15(data, expires_delta, t) ==
    jwt_encode([exp |-> t + Minutes(15)] @@ data, SECRET_KEY, ALGORITHM)

\* expires_delta is None or Some(a duration in ticks); t is datetime.now
create_access_token(data, expires_delta, t) ==
    LET truthy == expires_delta # None /\ expires_delta[1] # 0
        expire == IF truthy
                  THEN t + expires_delta[1]
                  ELSE t + Minutes(ACCESS_TOKEN_EXPIRE_MINUTES)
        to_encode == [exp |-> expire] @@ data
    IN jwt_encode(to_encode, SECRET_KEY, ALGORITHM)

------------------------------------------------------------------------------
(* Responses *)

HTTPException(status_code, detail, headers) ==
    [status_code |-> status_code, detail |-> detail, headers |-> headers,
     body |-> None]

Response(status_code, body) ==
    [status_code |-> status_code, detail |-> "", headers |-> <<>>,
     body |-> body]

UsernameConflict == HTTPException(400, "Username already registered", <<>>)
EmailConflict == HTTPException(400, "Email already registered", <<>>)
InvalidCredentials == HTTPException(401, "Incorrect username or password", <<>>)
credentials_exception ==
    HTTPException(401, "Could not validate credentials",
                  <<"WWW-Authenticate: Bearer">>)
\* an exception no handler catches
InternalServerError == HTTPException(500, "Internal Server Error", <<>>)

\* a response that is the stored record as it is
User_raw(d) == d

\* response_model=User: the fields username and email, nothing else
User(d) == [username |-> d.username, email |-> d.email]

------------------------------------------------------------------------------
(* Handlers that read the store once *)

\* a login that tells an unknown username from a wrong password
login_for_access_token_leaky(d, username, password, t) ==
    IF username \notin DOMAIN d THEN HTTPException(404, "User not found", <<>>)
    ELSE IF ~verify_password(password, d[username].hashed_password)
         THEN InvalidCredentials
    ELSE Response(200,
            [access_token |->
                create_access_token([sub |-> username],
                    Some(Minutes(ACCESS_TOKEN_EXPIRE_MINUTES)), t),
             token_type |-> "bearer"])

login_for_access_token(d, username, password, t) ==
    IF username \notin DOMAIN d THEN InvalidCredentials
    ELSE IF ~verify_password(password, d[username].hashed_password)
         THEN InvalidCredentials
    ELSE Response(200,
            [access_token |->
                create_access_token([sub |-> username],
                    Some(Minutes(ACCESS_TOKEN_EXPIRE_MINUTES)), t),
             token_type |-> "bearer"])

\* a resolver that tells a subject missing from the store from a bad token
get_current_user_telling(d, token, t) ==
    LET decoded == jwt_decode(token, SECRET_KEY, ALGORITHM, t)
        username == Get(decoded.payload, "sub")
    IN IF ~decoded.ok THEN credentials_exception
       ELSE IF username = None THEN credentials_exception
       ELSE IF username[1] \notin DOMAIN d
            THEN HTTPException(404, "User not found", <<>>)
       ELSE Response(200, d[username[1]])

get_current_user(d, token, t) ==
    LET decoded == jwt_decode(token, SECRET_KEY, ALGORITHM, t)
        username == Get(decoded.payload, "sub")
    IN IF ~decoded.ok THEN credentials_exception
       ELSE IF username = None THEN credentials_exception
       ELSE IF username[1] \notin DOMAIN d THEN credentials_exception
       ELSE Response(200, d[username[1]])

\* a scan that compares the wrong field of the records
EmailTaken_wrong_field(d, email) == \E u \in DOMAIN d : d[u].username = email

\* any(u.get("email") == email for u in TEMP_USER_DATABASE.values())
EmailTaken(d, email) == \E u \in DOMAIN d : d[u].email = email

------------------------------------------------------------------------------
(* Inputs *)

Procs == {"t1", "t2"}
\* the client of the one-request-at-a-time service
Client == "t1"

Usernames == {"", "alice", "bob"}
\* the login form's username is a required form field: an empty one is turned
\* down before the handler runs
LoginUsernames == Usernames \ {""}
Emails == {"a@x.com", "b@y.com"}
\* "pw" and "qw"
Passwords == {<<112, 119>>, <<113, 119>>}
\* the password of the signups that run on threads together: "pw"
ThreadPasswords == {<<112, 119>>}

\* passwords for the hasher on its own: a run of "a" up to just under the
\* 72-byte limit, then a short tail of "a", "b", U+00E9 (two bytes) and
\* U+20AC (three bytes)
TailChars == {97, 98, 233, 8364}
PadLens == {0, MaxPasswordBytes - 2, MaxPasswordBytes - 1}
Pad(n) == [i \in 1..n |-> 97]
Tails == UNION {[1..n -> TailChars] : n \in 0..MaxTail}
TestPasswords == {[pad |-> n, tail |-> t] : n \in PadLens, t \in Tails}
\* the password such a pair stands for
Password(d) == Pad(d.pad) \o d.tail

\* the clock moves by one tick, or by a tick less than the token lifetime
Jumps == {1, Minutes(ACCESS_TOKEN_EXPIRE_MINUTES) - 1}
\* behaviours are followed for one token lifetime and a second
Horizon == Minutes(ACCESS_TOKEN_EXPIRE_MINUTES) + TicksPerSec

\* a string no token parses from
Garbage == [kind |-> "garbage", alg |-> "", key |-> "", claims |-> None]

\* tokens somebody other than the service made at time t: signed with the
\* service's key or another, expiring around t or never, with or without subject
ForeignTokens(t) ==
    LET s == ToSeconds(t)
        Signed(k, c) == [kind |-> "jws", alg |-> ALGORITHM, key |-> k, claims |-> c]
    IN {Garbage, Signed("attacker_key", [sub |-> "alice", exp |-> s + 1])}
       \cup {Signed(SECRET_KEY, [sub |-> u, exp |-> s + 1]) : u \in Usernames}
       \cup {Signed(SECRET_KEY, [sub |-> "alice", exp |-> e]) : e \in {s - 1, s}}
       \cup {Signed(SECRET_KEY, [exp |-> s + 1]), Signed(SECRET_KEY, [sub |-> "alice"])}

\* what client p can present: the token it holds, or a foreign one
PresentedTokens(p) ==
    (IF tok[p] = None THEN {} ELSE {tok[p]}) \cup ForeignTokens(now)

------------------------------------------------------------------------------
(* State machine *)

ServiceInit ==
    /\ db = [u \in {} |-> None]
    /\ now = 0
    /\ advances = 0
    /\ pc = [p \in Procs |-> "idle"]
    /\ req = [p \in Procs |-> None]
    /\ loc = [p \in Procs |-> None]
    /\ res = [p \in Procs |-> None]
    /\ tok = [p \in Procs |-> None]

Init ==
    /\ ServiceInit
    /\ hp = None
    /\ tc = None

\* the handler of thread p ends with this outcome
Finish(p, outcome) ==
    /\ pc' = [pc EXCEPT ![p] = "idle"]
    /\ res' = [res EXCEPT ![p] = [req |-> req[p], out |-> outcome]]
    /\ req' = [req EXCEPT ![p] = None]
    /\ loc' = [loc EXCEPT ![p] = None]

\* POST /auth/signup reaches the handler
SignupCall(p, username, email, password) ==
    /\ pc[p] = "idle"
    /\ pc' = [pc EXCEPT ![p] = "signup_84"]
    /\ req' = [req EXCEPT ![p] = [op |-> "signup", username |-> username,
                                  email |-> email, password |-> password]]
    /\ res' = [res EXCEPT ![p] = None]
    /\ UNCHANGED <<db, now, advances, loc, tok, hp, tc>>

\* a signup that goes to the email scan without looking up the username
SignupCheckUsername_skipped(p) ==
    /\ pc[p] = "signup_84"
    /\ pc' = [pc EXCEPT ![p] = "signup_87"]
    /\ UNCHANGED <<db, now, advances, req, loc, res, tok, hp, tc>>

\* if user.username in TEMP_USER_DATABASE: raise
SignupCheckUsername(p) ==
    /\ pc[p] = "signup_84"
    /\ IF req[p].username \in DOMAIN db
       THEN Finish(p, UsernameConflict)
       ELSE /\ pc' = [pc EXCEPT ![p] = "signup_87"]
            /\ UNCHANGED <<req, loc, res>>
    /\ UNCHANGED <<db, now, advances, tok, hp, tc>>

\* the email scan starts: the iterator over the records notes their number
SignupScanBegin(p) ==
    /\ pc[p] = "signup_87"
    /\ pc' = [pc EXCEPT ![p] = "signup_87_iter"]
    /\ loc' = [loc EXCEPT ![p] = [used |-> Cardinality(DOMAIN db),
                                  hit |-> EmailTaken(db, req[p].email)]]
    /\ UNCHANGED <<db, now, advances, req, res, tok, hp, tc>>

\* how the scan can end.  With no insertion since it began it has read the
\* records as they were then or as they are now (a record replaced meanwhile is
\* read before or after).  An insertion of a new key since it began makes the
\* iterator raise RuntimeError, unless the scan had met the email before.
ScanOutcomes(d, l, email) ==
    IF Cardinality(DOMAIN d) # l.used
    THEN (IF l.hit THEN {"taken", "error"} ELSE {"error"})
    ELSE {IF h THEN "taken" ELSE "free" : h \in {l.hit, EmailTaken(d, email)}}

SignupScanEnd(p) ==
    /\ pc[p] = "signup_87_iter"
    /\ \E o \in ScanOutcomes(db, loc[p], req[p].email) :
          IF o = "taken" THEN Finish(p, EmailConflict)
          ELSE IF o = "error" THEN Finish(p, InternalServerError)
          ELSE /\ pc' = [pc EXCEPT ![p] = "signup_90"]
               /\ loc' = [loc EXCEPT ![p] = None]
               /\ UNCHANGED <<req, res>>
    /\ UNCHANGED <<db, now, advances, tok, hp, tc>>

\* hashed_password = get_password_hash(user.password)
SignupHash(p) ==
    /\ pc[p] = "signup_90"
    /\ \E salt \in Salts :
          loc' = [loc EXCEPT ![p] =
                    [hashed_password |-> get_password_hash(req[p].password, salt)]]
    /\ pc' = [pc EXCEPT ![p] = "signup_99"]
    /\ UNCHANGED <<db, now, advances, req, res, tok, hp, tc>>

\* TEMP_USER_DATABASE[user.username] = new_user_data; return User(**new_user_data)
SignupStore(p) ==
    /\ pc[p] = "signup_99"
    /\ LET new_user_data == [username |-> req[p].username,
                             email |-> req[p].email,
                             hashed_password |-> loc[p].hashed_password]
       IN /\ db' = [u \in DOMAIN db \cup {req[p].username} |->
                       IF u = req[p].username THEN new_user_data ELSE db[u]]
          /\ Finish(p, Response(201, User(new_user_data)))
    /\ UNCHANGED <<now, advances, tok, hp, tc>>

\* a login that keeps the token it issued in the user's record
Login_recording(p, username, password) ==
    /\ pc[p] = "idle"
    /\ LET out == login_for_access_token(db, username, password, now)
       IN /\ res' = [res EXCEPT ![p] =
                       [req |-> [op |-> "login", username |-> username,
                                 password |-> password],
                        out |-> out]]
          /\ tok' = [tok EXCEPT ![p] =
                       IF out.status_code = 200 THEN out.body.access_token ELSE @]
          /\ db' = IF out.status_code = 200
                   THEN [db EXCEPT ![username] =
                            [last_token |-> out.body.access_token] @@ @]
                   ELSE db
    /\ UNCHANGED <<now, advances, pc, req, loc, hp, tc>>

\* POST /auth/login: the handler reads the store and the clock once
Login(p, username, password) ==
    /\ pc[p] = "idle"
    /\ LET out == login_for_access_token(db, username, password, now)
       IN /\ res' = [res EXCEPT ![p] =
                       [req |-> [op |-> "login", username |-> username,
                                 password |-> password],
                        out |-> out]]
          /\ tok' = [tok EXCEPT ![p] =
                       IF out.status_code = 200 THEN out.body.access_token ELSE @]
    /\ UNCHANGED <<db, now, advances, pc, req, loc, hp, tc>>

\* a protected request: get_current_user resolves the presented token
ResolveIdentity(p, token) ==
    /\ pc[p] = "idle"
    /\ res' = [res EXCEPT ![p] =
                 [req |-> [op |-> "resolve", token |-> token],
                  out |-> get_current_user(db, token, now)]]
    /\ UNCHANGED <<db, now, advances, pc, req, loc, tok, hp, tc>>

\* time passes
Advance(d) ==
    /\ advances < MaxAdvances
    /\ now + d <= Horizon
    /\ now' = now + d
    /\ advances' = advances + 1
    /\ res' = [p \in Procs |-> None]
    /\ UNCHANGED <<db, pc, req, loc, tok, hp, tc>>

(* The service handling one request at a time *)
Next ==
    \/ \E u \in Usernames, e \in Emails, w \in Passwords : SignupCall(Client, u, e, w)
    \/ SignupCheckUsername(Client)
    \/ SignupScanBegin(Client)
    \/ SignupScanEnd(Client)
    \/ SignupHash(Client)
    \/ SignupStore(Client)
    \/ \E u \in LoginUsernames, w \in Passwords : Login(Client, u, w)
    \/ \E t \in PresentedTokens(Client) : ResolveIdentity(Client, t)
    \/ \E d \in Jumps : Advance(d)

Spec == Init /\ [][Next]_vars

(* Signup requests handled by threads of the worker pool, step by step *)
ConcNext ==
    \/ \E p \in Procs, u \in Usernames, e \in Emails, w \in ThreadPasswords :
          SignupCall(p, u, e, w)
    \/ \E p \in Procs : SignupCheckUsername(p)
    \/ \E p \in Procs : SignupScanBegin(p)
    \/ \E p \in Procs : SignupScanEnd(p)
    \/ \E p \in Procs : SignupHash(p)
    \/ \E p \in Procs : SignupStore(p)

ConcSpec == Init /\ [][ConcNext]_vars

(* The password hasher on its own: a password is hashed, as signup does, and
   a password is then verified against the digest, as login does *)
PwdInit ==
    /\ ServiceInit
    /\ hp \in {[pc |-> "hash", stored |-> p2, presented |-> p1,
                digest |-> None, verdict |-> FALSE] :
                    p1 \in TestPasswords, p2 \in TestPasswords}
    /\ tc = None

HashStep ==
    /\ hp.pc = "hash"
    /\ \E salt \in Salts :
          hp' = [hp EXCEPT !.digest = get_password_hash(Password(hp.stored), salt),
                           !.pc = "verify"]
    /\ UNCHANGED <<db, now, advances, pc, req, loc, res, tok, tc>>

VerifyStep ==
    /\ hp.pc = "verify"
    /\ hp' = [hp EXCEPT !.verdict = verify_password(Password(hp.presented), hp.digest),
                        !.pc = "done"]
    /\ UNCHANGED <<db, now, advances, pc, req, loc, res, tok, tc>>

PwdNext == HashStep \/ VerifyStep

PwdSpec == PwdInit /\ [][PwdNext]_vars

(* The token codec on its own: a token is issued for a subject with a ttl,
   or with none, and decoded at once or shortly after *)
Ttls == {None, Some(0 - TicksPerSec), Some(0 - 1), Some(0), Some(1),
         Some(TicksPerSec), Some(Minutes(30)),
         Some(Minutes(ACCESS_TOKEN_EXPIRE_MINUTES))}
IssueTimes == 0..MaxIssueTick
Delays == {0, 1, TicksPerSec}

TokInit ==
    /\ ServiceInit
    /\ hp = None
    /\ tc \in {[pc |-> "issue", sub |-> u, ttl |-> l, at |-> t, token |-> None,
                checked_at |-> t, decoded |-> JWTError] :
                    u \in LoginUsernames, l \in Ttls, t \in IssueTimes}

IssueStep ==
    /\ tc.pc = "issue"
    /\ tc' = [tc EXCEPT !.token = create_access_token([sub |-> tc.sub], tc.ttl, tc.at),
                        !.pc = "decode"]
    /\ UNCHANGED <<db, now, advances, pc, req, loc, res, tok, hp>>

DecodeStep ==
    /\ tc.pc = "decode"
    /\ \E d \in Delays :
          tc' = [tc EXCEPT !.checked_at = tc.at + d,
                           !.decoded = jwt_decode(tc.token, SECRET_KEY, ALGORITHM,
                                                  tc.at + d),
                           !.pc = "done"]
    /\ UNCHANGED <<db, now, advances, pc, req, loc, res, tok, hp>>

TokNext == IssueStep \/ DecodeStep

TokSpec == TokInit /\ [][TokNext]_vars

------------------------------------------------------------------------------
(* Properties *)

\* thread p has completed a request of this kind and its outcome stands
Completed(p, op) == res[p] # None /\ res[p].req.op = op

Created(p) == Completed(p, "signup") /\ res[p].out.status_code = 201

\* C1: with requests handled one at a time, no two stored records share a
\* username and no two share an email
C1_UniqueUsernameAndEmail ==
    \A u1 \in DOMAIN db, u2 \in DOMAIN db :
        u1 # u2 => /\ db[u1].username # db[u2].username
                   /\ db[u1].email # db[u2].email

\* two records are stored and the registration of a third username has been
\* turned down for its email
C1_Witness ==
    /\ Cardinality(DOMAIN db) = 2
    /\ Completed(Client, "signup")
    /\ res[Client].req.username \notin DOMAIN db
    /\ res[Client].out = EmailConflict

\* C2: of two signups with the same username that are in flight together,
\* exactly one creates the record and the other gets UsernameConflict; both
\* never succeed.  Two signups of one username can both have succeeded only
\* if they were in flight together.
C2_NeverBothSucceed ==
    \A p \in Procs, q \in Procs :
        (p # q /\ Created(p) /\ Created(q))
            => res[p].req.username # res[q].req.username

\* C3: of two signups with different usernames and the same email that are in
\* flight together at most one succeeds, and the store never holds two
\* records with one email
C3_NoSharedEmail ==
    /\ \A p \in Procs, q \in Procs :
          (p # q /\ Created(p) /\ Created(q)
                 /\ res[p].req.username # res[q].req.username)
              => res[p].req.email # res[q].req.email
    /\ \A u1 \in DOMAIN db, u2 \in DOMAIN db :
          u1 # u2 => db[u1].email # db[u2].email

\* C4: ResolveIdentity returns a Principal only if the token's signature
\* verifies under the service secret, its expiresAt is strictly later than
\* the time of the call, and its subject is a username in the store
C4_ResolveOnlyIfValid ==
    (Completed(Client, "resolve") /\ res[Client].out.status_code = 200)
        => LET token == res[Client].req.token
           IN /\ token.kind = "jws"
              /\ token.key = SECRET_KEY
              /\ "exp" \in DOMAIN token.claims
              /\ token.claims.exp * TicksPerSec > now
              /\ "sub" \in DOMAIN token.claims
              /\ token.claims.sub \in DOMAIN db

\* C5: whatever the store holds, a login with an unregistered username and a
\* login with a registered username and a password that does not verify have
\* the same outcome: status, message and headers
C5_LoginFailuresIndistinguishable ==
    \A u1 \in Usernames, u2 \in Usernames, w1 \in Passwords, w2 \in Passwords :
        ( /\ u1 \notin DOMAIN db
          /\ u2 \in DOMAIN db
          /\ ~verify_password(w2, db[u2].hashed_password) )
        => login_for_access_token(db, u1, w1, now)
             = login_for_access_token(db, u2, w2, now)

\* a login with a wrong password has just failed while another username is
\* not registered
C5_Witness ==
    /\ Completed(Client, "login")
    /\ res[Client].req.username \in DOMAIN db
    /\ res[Client].out = InvalidCredentials
    /\ \E u \in Usernames : u \notin DOMAIN db

\* the step in which the signup of thread p returns or raises
SignupReturns(p) ==
    /\ pc[p] \in {"signup_84", "signup_87_iter", "signup_99"}
    /\ pc'[p] = "idle"

C7_LoginTokenExpiryExact ==
    Completed(Client, "login") =>
        LET r == res[Client]
            u == r.req.username
            granted == /\ u \in DOMAIN db
                       /\ verify_password(r.req.password, db[u].hashed_password)
        IN /\ (r.out.status_code = 200) <=> granted
           /\ r.out.status_code = 200 =>
                /\ r.out.body.token_type = "bearer"
                /\ r.out.body.access_token.claims.sub = u
                /\ r.out.body.access_token.claims.exp * TicksPerSec
                       = now + Minutes(ACCESS_TOKEN_EXPIRE_MINUTES)

\* C7 as amended: the same, with expiresAt the time of the call plus 60
\* minutes cut down to a whole second
C7_LoginTokenExpiryWholeSeconds ==
    Completed(Client, "login") =>
        LET r == res[Client]
            u == r.req.username
            granted == /\ u \in DOMAIN db
                       /\ verify_password(r.req.password, db[u].hashed_password)
        IN /\ (r.out.status_code = 200) <=> granted
           /\ r.out.status_code = 200 =>
                /\ r.out.body.token_type = "bearer"
                /\ r.out.body.access_token.kind = "jws"
                /\ r.out.body.access_token.key = SECRET_KEY
                /\ r.out.body.access_token.claims.sub = u
                /\ r.out.body.access_token.claims.exp
                       = (now + Minutes(ACCESS_TOKEN_EXPIRE_MINUTES)) \div TicksPerSec

\* a login has succeeded at a time that is not a whole second
C7_Witness ==
    /\ Completed(Client, "login")
    /\ res[Client].out.status_code = 200
    /\ now % TicksPerSec # 0

\* C8: verify(P, hash(P)) is true for every password P
C8_VerifyOwnHash ==
    (hp # None /\ hp.pc = "done" /\ Password(hp.presented) = Password(hp.stored))
        => hp.verdict

\* C9: verify(P1, hash(P2)) is true exactly if P1 and P2 are equal after the
\* truncation that hash applies
C9_VerifyIffEqualTruncated ==
    (hp # None /\ hp.pc = "done")
        => (hp.verdict <=>
              TruncatedPassword(Password(hp.presented))
                  = TruncatedPassword(Password(hp.stored)))

\* C10: the token a successful login returned, presented at a time strictly
\* before its expiresAt and after whatever has happened since, resolves to
\* the stored record of its subject, the username of that login
C10_IssuedTokenResolves ==
    ( /\ Completed(Client, "resolve")
      /\ tok[Client] # None
      /\ res[Client].req.token = tok[Client]
      /\ now < tok[Client].claims.exp * TicksPerSec )
    => /\ tok[Client].claims.sub \in DOMAIN db
       /\ res[Client].out = Response(200, db[tok[Client].claims.sub])
       /\ res[Client].out.body.username = tok[Client].claims.sub

\* the token of a login has resolved in the last second before its expiry,
\* after the clock has moved and another user has registered
C10_Witness ==
    /\ Completed(Client, "resolve")
    /\ tok[Client] # None
    /\ res[Client].req.token = tok[Client]
    /\ res[Client].out.status_code = 200
    /\ now < tok[Client].claims.exp * TicksPerSec
    /\ now + TicksPerSec >= tok[Client].claims.exp * TicksPerSec
    /\ Cardinality(DOMAIN db) = 2

\* C11: once the clock has reached the expiresAt of a token that a login
\* returned, every ResolveIdentity with that token ends Unauthenticated
C11_ExpiredTokenRejected ==
    ( /\ Completed(Client, "resolve")
      /\ tok[Client] # None
      /\ res[Client].req.token = tok[Client]
      /\ now >= tok[Client].claims.exp * TicksPerSec )
    => res[Client].out = credentials_exception

\* the ttl the caller of issue asked for, the default when it passed none
RequestedTtl(ttl) ==
    IF ttl = None THEN Minutes(ACCESS_TOKEN_EXPIRE_MINUTES) ELSE ttl[1]

\* C12: for every ttl passed to issue, negative, zero or positive, the
\* token's expiresAt is the time of issuance plus that ttl, and the 60-minute
\* default applies only when no ttl is passed.  Stated for the issuances
\* whose time plus ttl is a whole second, which a token's exp can hold.
C12_ExpiryIsIssueTimePlusTtl ==
    ( /\ tc # None
      /\ tc.pc # "issue"
      /\ (tc.at + RequestedTtl(tc.ttl)) % TicksPerSec = 0 )
    => tc.token.claims.exp * TicksPerSec = tc.at + RequestedTtl(tc.ttl)

\* C13: whatever the store holds and whatever the time, every token that
\* ResolveIdentity turns down - malformed, signed with another key, expired,
\* without subject, with a subject the store does not hold - gets the same
\* outcome: status 401, the same message and the same headers
C13_ResolveFailuresIndistinguishable ==
    \A t1 \in PresentedTokens(Client), t2 \in PresentedTokens(Client) :
        LET o1 == get_current_user(db, t1, now)
            o2 == get_current_user(db, t2, now)
        IN (o1.status_code # 200 /\ o2.status_code # 200)
              => (o1 = o2 /\ o1.status_code = 401)

\* the token of a login has been turned down a second or more after its
\* expiry, while a username is not registered: all five causes can be
\* presented
C13_Witness ==
    /\ Completed(Client, "resolve")
    /\ tok[Client] # None
    /\ res[Client].req.token = tok[Client]
    /\ now >= (tok[Client].claims.exp + 1) * TicksPerSec
    /\ res[Client].out = credentials_exception
    /\ \E u \in Usernames : u \notin DOMAIN db

\* C14: a stored record is never removed and its email and password hash
\* never change, also when the steps of signups interleave
C14_StoredRecordsNeverChange ==
    [][\A u \in DOMAIN db : u \in DOMAIN db' /\ db'[u] = db[u]]_vars

\* C15: every stored record has a non-empty username
C15_NoEmptyUsername ==
    \A u \in DOMAIN db : u # "" /\ db[u].username # ""

\* C16: what a successful Register returns is the username and the email of
\* the request and nothing else: no password hash, no password
C16_RegisterReturnsPublicView ==
    Created(Client) =>
        /\ DOMAIN res[Client].out.body = {"username", "email"}
        /\ res[Client].out.body.username = res[Client].req.username
        /\ res[Client].out.body.email = res[Client].req.email

\* a registration has succeeded as the second one, and the store holds its
\* record with the password hash
C16_Witness ==
    /\ Created(Client)
    /\ Cardinality(DOMAIN db) = 2
    /\ "hashed_password" \in DOMAIN db[res[Client].req.username]

\* C17: the store changes only in the step in which a Register succeeds: a
\* Register that ends in a conflict, every Login and every ResolveIdentity
\* leave the stored records as they were
C17_StoreChangesOnlyByRegister ==
    [][db' # db =>
        /\ pc[Client] = "signup_99"
        /\ res'[Client].req.op = "signup"
        /\ res'[Client].out.status_code = 201
        /\ db'[res'[Client].req.username].username = res'[Client].req.username
    ]_vars

\* a login has just issued a token and the store holds the records it held
C17_Witness ==
    /\ Completed(Client, "login")
    /\ res[Client].out.status_code = 200
    /\ tok[Client] = res[Client].out.body.access_token
    /\ \A u \in DOMAIN db : DOMAIN db[u] = {"username", "email", "hashed_password"}
    /\ Cardinality(DOMAIN db) = 2

====
